---- MODULE Spec2Model ----
(***************************************************************************)
(* Interactive field-fill engine of the form assistant:                    *)
(* FormProcessor (src/src/form_processor.py) together with the validation  *)
(* oracle wrapper LLMHandler.validate_input (src/src/llm_handler.py).      *)
(*                                                                         *)
(* A Python str is a sequence of one-character strings, so that strip,     *)
(* lower, upper, substring tests and the regular expressions of the code   *)
(* are computed and not assumed.  A Python value that may be None is a     *)
(* record [k, s]: Str(s) or None.                                          *)
(***************************************************************************)
EXTENDS Integers, Sequences, FiniteSets, TLC

(***************************************************************************)
(* State                                                                   *)
(***************************************************************************)
VARIABLES
    form_data,       \* self.form_data: [is_none, fields]; is_none is Python None
    form_context,    \* self.form_context ("" is falsy)
    chat_history,    \* self.chat_history
    needs_review,    \* self.needs_review
    completed_form,  \* the dict process_form builds and returns:
                     \* [fields, review_status]; its field dicts are the
                     \* field dicts of form_data (dict() copies one level)
    pc,              \* "idle" (not inside process_form), "awaiting_input"
                     \* (process_form is blocked in console.input) or
                     \* "aborted" (an exception left process_form)
    field_idx,       \* position of the for loop over form_data.items()
    attempts,        \* local attempts
    raw_input,       \* local raw_input (None while unassigned)
    last_exchanges,  \* local last_exchanges of the current field
    status,          \* per field of the current call: NOT_VISITED,
                     \* AWAITING_INPUT, ACCEPTED, ESCALATED
    prompted,        \* names of the fields prompted by the current call
    validations,     \* per field: _validate_input_with_context calls
    oracle_calls,    \* per field: llm_interface.validate_input calls
    schema_missing,  \* the current call found no form data
    runs,            \* process_form calls so far
    asked,           \* console.input lines so far
    \* one direct call of _validate_input_with_context
    arg_field_data, arg_user_input, arg_llm,  \* its arguments and the oracle's behaviour
    called,          \* the call was made
    ret_validation,  \* what it returned
    recalled,        \* the same call was made a second time
    ret_revalidation, \* what the second call returned
    replied,         \* the next attempt of the field was validated
    arg_reply,       \* the input of that next attempt
    ret_reply,       \* what its validation returned
    \* ChatHistoryManager (src/src/chat_history.py)
    mgr_history_file, \* the history file: [ok, messages]; ~ok is a file json.load rejects
    mgr_max_history,  \* self.max_history
    mgr_history,      \* self.history
    mgr_appended      \* the messages loaded at construction followed by every
                      \* message added since, in order

vars == <<form_data, form_context, chat_history, needs_review, completed_form,
          pc, field_idx, attempts, raw_input, last_exchanges, status, prompted,
          validations, oracle_calls, schema_missing, runs, asked,
          arg_field_data, arg_user_input, arg_llm, called, ret_validation,
          recalled, ret_revalidation, replied, arg_reply, ret_reply,
          mgr_history_file, mgr_max_history, mgr_history, mgr_appended>>

processor_vars == <<form_data, form_context, chat_history, needs_review, completed_form,
                    pc, field_idx, attempts, raw_input, last_exchanges, status, prompted,
                    validations, oracle_calls, schema_missing, runs, asked>>
validator_vars == <<arg_field_data, arg_user_input, arg_llm, called, ret_validation,
                    recalled, ret_revalidation, replied, arg_reply, ret_reply>>
manager_vars == <<mgr_history_file, mgr_max_history, mgr_history, mgr_appended>>

\* The history file of a run that has not written any history yet
NoHistoryFile == [ok |-> FALSE, messages |-> <<>>]
\* The manager's state in the runs that study the processor and the validator
ManagerUnused ==
    /\ mgr_history_file = NoHistoryFile
    /\ mgr_max_history = 10
    /\ mgr_history = <<>>
    /\ mgr_appended = <<>>


(***************************************************************************)
(* Python str primitives used by the code                                  *)
(***************************************************************************)
UpperLetters == <<"A", "B", "C", "D", "E", "F", "G", "H", "I", "J", "K", "L", "M", "N", "O", "P", "Q", "R", "S", "T", "U", "V", "W", "X", "Y", "Z">>
LowerLetters == <<"a", "b", "c", "d", "e", "f", "g", "h", "i", "j", "k", "l", "m", "n", "o", "p", "q", "r", "s", "t", "u", "v", "w", "x", "y", "z">>
Digits == <<"0", "1", "2", "3", "4", "5", "6", "7", "8", "9">>

Range(f) == {f[i] : i \in DOMAIN f}
SetMin(S) == CHOOSE x \in S : \A y \in S : x <= y
SetMax(S) == CHOOSE x \in S : \A y \in S : y <= x

DigitSet == Range(Digits)
LowerSet == Range(LowerLetters)
UpperSet == Range(UpperLetters)
ToLower == [c \in UpperSet |-> LowerLetters[CHOOSE i \in DOMAIN UpperLetters : UpperLetters[i] = c]]
ToUpper == [c \in LowerSet |-> UpperLetters[CHOOSE i \in DOMAIN LowerLetters : LowerLetters[i] = c]]

IsSpace(c) == c \in {" ", "\t", "\n"}
IsDigit(c) == c \in DigitSet
IsLower(c) == c \in LowerSet
IsUpper(c) == c \in UpperSet

LowerChar(c) == IF IsUpper(c) THEN ToLower[c] ELSE c
UpperChar(c) == IF IsLower(c) THEN ToUpper[c] ELSE c

\* str.lower(), str.upper(), str.strip()
lower(s) == [i \in DOMAIN s |-> LowerChar(s[i])]
upper(s) == [i \in DOMAIN s |-> UpperChar(s[i])]
strip(s) ==
    LET keep == {i \in DOMAIN s : ~IsSpace(s[i])}
    IN  IF keep = {} THEN <<>> ELSE SubSeq(s, SetMin(keep), SetMax(keep))

\* a in b (substring test), b.startswith(a), a in list
IsSubstring(a, b) ==
    \E i \in 0..(Len(b) - Len(a)) : SubSeq(b, i + 1, i + Len(a)) = a
StartsWith(b, a) == Len(a) <= Len(b) /\ SubSeq(b, 1, Len(a)) = a
AllIn(s, C) == \A i \in DOMAIN s : s[i] \in C
AllDigits(s, lo, hi) == \A i \in lo..hi : i \in DOMAIN s /\ IsDigit(s[i])

\* Python values that may be None
Str(s) == [k |-> "str", s |-> s]
None == [k |-> "none", s |-> <<>>]
\* Python truthiness of a str-or-None value: "" and None are falsy (empty)
IsEmptyValue(v) == v.k = "none" \/ v.s = <<>>
\* the message slot of a validation result when the code returns None
NoMessage == "None"

(***************************************************************************)
(* FormProcessor._is_skip_request                                          *)
(***************************************************************************)
skip_words ==
    { <<"n", "o", "n", "e">>,
      <<"n", "/", "a">>,
      <<"n", "a">>,
      <<"n", "o", "t", " ", "a", "p", "p", "l", "i", "c", "a", "b", "l", "e">>,
      <<"s", "k", "i", "p">>,
      <<"e", "m", "p", "t", "y">>,
      <<"n", "i", "l">>,
      <<"n", "u", "l", "l">>,
      <<"n", "o", "t", " ", "s", "p", "e", "c", "i", "f", "i", "e", "d">>,
      <<"u", "n", "k", "n", "o", "w", "n">> }

\* any(re.match(pattern, user_input.lower().strip()) for pattern in skip_patterns)
_is_skip_request(user_input) ==
    LET t == strip(lower(user_input))
    IN  t \in skip_words \/ t = <<>>

Not_specified == <<"N", "o", "t", " ", "s", "p", "e", "c", "i", "f", "i", "e", "d">>

(***************************************************************************)
(* FormProcessor._is_completely_random                                     *)
(***************************************************************************)
HomeRow == {"a", "s", "d", "f", "j", "k", "l", ";"}
TopRow == {"q", "w", "e", "r", "t", "y"}
BottomRow == {"z", "x", "c", "v", "b", "n", "m"}
Specials == {"!", "@", "#", "$", "%", "^", "&", "*"}

\* ^[...]+$ : one or more characters of the class ($ also matches before a
\* final newline)
MatchesClassPlus(s, C) ==
    LET body == IF Len(s) > 0 /\ s[Len(s)] = "\n" THEN SubSeq(s, 1, Len(s) - 1) ELSE s
    IN  Len(body) > 0 /\ AllIn(body, C)

\* ^(?=.*[a-z])(?=.*[A-Z])(?=.*\d)(?=.*[!@#$%^&*])[A-Za-z\d!@#$%^&*]{10,}$
MatchesComplexRandom(s) ==
    /\ Len(s) >= 10
    /\ AllIn(s, LowerSet \cup UpperSet \cup DigitSet \cup Specials)
    /\ \E i \in DOMAIN s : IsLower(s[i])
    /\ \E i \in DOMAIN s : IsUpper(s[i])
    /\ \E i \in DOMAIN s : IsDigit(s[i])
    /\ \E i \in DOMAIN s : s[i] \in Specials

_is_completely_random(user_input) ==
    LET l == lower(user_input)
    IN  /\ \/ MatchesClassPlus(l, HomeRow)
           \/ MatchesClassPlus(l, TopRow)
           \/ MatchesClassPlus(l, BottomRow)
           \/ MatchesComplexRandom(l)
        /\ Len(user_input) > 8

(***************************************************************************)
(* FormProcessor._flexible_medical_validation                              *)
(***************************************************************************)
common_medical_terms ==
    { <<"m", "r", "i">>, <<"c", "t">>, <<"p", "e", "t">>,
      <<"u", "s">>, <<"x", "r">>, <<"e", "k", "g">>,
      <<"e", "c", "g">>, <<"c", "b", "c">>, <<"w", "b", "c">>,
      <<"r", "b", "c">>, <<"b", "p">>, <<"h", "r">>,
      <<"s", "o", "b">>, <<"c", "p">>, <<"m", "i">>,
      <<"c", "v", "a">>, <<"t", "i", "a">>, <<"u", "t", "i">>,
      <<"b", "p", "h">>, <<"g", "e", "r", "d">>, <<"d", "m">>,
      <<"h", "t", "n">>, <<"c", "h", "f">>, <<"c", "o", "p", "d">>,
      <<"r", "a">>, <<"s", "l", "e">>, <<"o", "a">>,
      <<"f", "x">>, <<"n", "a", "d">> }

IsDateSep(c) == c \in {"/", "-", "."}
SepAt(s, i) == i \in DOMAIN s /\ IsDateSep(s[i])

\* re.match (anchored at the start only) of the three date_patterns
\* \d{1,2}[/\-\.]\d{1,2}[/\-\.]\d{2,4}
MatchesDate1(s) ==
    \E a \in 1..2, b \in 1..2 :
        /\ AllDigits(s, 1, a) /\ SepAt(s, a + 1)
        /\ AllDigits(s, a + 2, a + 1 + b) /\ SepAt(s, a + b + 2)
        /\ AllDigits(s, a + b + 3, a + b + 4)
\* \d{4}[/\-\.]\d{1,2}[/\-\.]\d{1,2}
MatchesDate2(s) ==
    \E b \in 1..2 :
        /\ AllDigits(s, 1, 4) /\ SepAt(s, 5)
        /\ AllDigits(s, 6, 5 + b) /\ SepAt(s, 6 + b)
        /\ AllDigits(s, 7 + b, 7 + b)
\* \d{1,2}[/\-\.]\d{4}
MatchesDate3(s) ==
    \E a \in 1..2 :
        /\ AllDigits(s, 1, a) /\ SepAt(s, a + 1)
        /\ AllDigits(s, a + 2, a + 5)

\* re.match(r'^-?\d*\.?\d+$', input_text)
MatchesNumber(s) ==
    LET body == IF Len(s) > 0 /\ s[Len(s)] = "\n" THEN SubSeq(s, 1, Len(s) - 1) ELSE s
        u == IF Len(body) > 0 /\ body[1] = "-" THEN SubSeq(body, 2, Len(body)) ELSE body
    IN  /\ Len(u) > 0
        /\ \/ AllDigits(u, 1, Len(u))
           \/ \E p \in DOMAIN u :
                /\ u[p] = "."
                /\ p < Len(u)
                /\ AllDigits(u, 1, p - 1)
                /\ AllDigits(u, p + 1, Len(u))

\* '@' in input_text and '.' in input_text.split('@')[1]
MatchesEmail(s) ==
    LET ats == {i \in DOMAIN s : s[i] = "@"}
    IN  /\ ats # {}
        /\ LET first == SetMin(ats)
               later == {i \in ats : i > first}
               stop == IF later = {} THEN Len(s) + 1 ELSE SetMin(later)
           IN  \E i \in (first + 1)..(stop - 1) : s[i] = "."

\* the (is_valid, message, value) tuple a validator returns; raises: the
\* validator does not return, an exception propagates to its caller
ValidResult(message, value) ==
    [is_valid |-> TRUE, message |-> message, value |-> value, raises |-> FALSE]
InvalidResult(message) ==
    [is_valid |-> FALSE, message |-> message, value |-> None, raises |-> FALSE]

_flexible_medical_validation_Remembers(field_data, user_input) ==
    IF \E k \in DOMAIN chat_history : chat_history[k].user = user_input
      THEN InvalidResult("You have already entered that.")
      ELSE ValidResult(NoMessage, Str(strip(user_input)))

_flexible_medical_validation(field_data, user_input) ==
    LET field_type == field_data.type
        input_text == strip(user_input)
    IN  IF lower(input_text) \in common_medical_terms
          THEN ValidResult(NoMessage, Str(upper(input_text)))
        ELSE IF field_type = "date"
          THEN IF MatchesDate1(input_text) \/ MatchesDate2(input_text) \/ MatchesDate3(input_text)
                 THEN ValidResult(NoMessage, Str(input_text))
                 ELSE InvalidResult("Please enter a valid date format for {display_name}.")
        ELSE IF field_type = "number"
          THEN IF MatchesNumber(input_text)
                 THEN ValidResult(NoMessage, Str(input_text))
                 ELSE InvalidResult("Please enter a valid number for {display_name}.")
        ELSE IF field_type = "email"
          THEN IF MatchesEmail(input_text)
                 THEN ValidResult(NoMessage, Str(input_text))
                 ELSE InvalidResult("Please enter a valid email address for {display_name}.")
        ELSE IF field_type \in {"text", "textarea"}
          THEN IF ~_is_completely_random(input_text)
                 THEN ValidResult(NoMessage, Str(input_text))
                 ELSE InvalidResult("Your input appears to be random characters. Please provide meaningful information for {display_name}.")
        ELSE ValidResult(NoMessage, Str(input_text))

(***************************************************************************)
(* FormProcessor._validate_select_input                                    *)
(* An option is [value, label, has_text, text]: the converters emit        *)
(* 'value' and 'label'; the code reads 'value' and 'text'.                 *)
(***************************************************************************)
DigitVal(c) == (CHOOSE i \in DOMAIN Digits : Digits[i] = c) - 1

RECURSIVE DigitsToInt(_)
DigitsToInt(s) ==
    IF s = <<>> THEN 0
    ELSE 10 * DigitsToInt(SubSeq(s, 1, Len(s) - 1)) + DigitVal(s[Len(s)])

\* int(user_input): surrounding whitespace and one sign are accepted,
\* anything else raises ValueError
IntParse(user_input) ==
    LET t == strip(user_input)
        signed == Len(t) > 0 /\ t[1] \in {"+", "-"}
        d == IF signed THEN SubSeq(t, 2, Len(t)) ELSE t
    IN  IF Len(d) > 0 /\ AllDigits(d, 1, Len(d))
          THEN [ok |-> TRUE,
                n |-> IF signed /\ t[1] = "-" THEN 0 - DigitsToInt(d) ELSE DigitsToInt(d)]
          ELSE [ok |-> FALSE, n |-> 0]

\* opt.get('value', '') and opt.get('text', opt.get('value', ''))
OptionValue(opt) == opt.value
OptionText(opt) == IF opt.has_text THEN opt.text ELSE opt.value

FirstIndex(seq, x) == SetMin({i \in DOMAIN seq : seq[i] = x})

FuzzyMatches_FirstOption(option_texts, user_input) ==
    IF option_texts = <<>> THEN {} ELSE {1}

\* the fuzzy "matches" list: indices of the options matched, in order
FuzzyMatches(option_texts, user_input) ==
    LET user_input_lower == lower(user_input)
    IN  {i \in DOMAIN option_texts :
            \/ IsSubstring(user_input_lower, lower(option_texts[i]))
            \/ IsSubstring(lower(option_texts[i]), user_input_lower)
            \/ StartsWith(lower(option_texts[i]), <<user_input_lower[1]>>)}

\* a Python str as a TLA+ string, for the messages the code formats
RECURSIVE ToStr(_)
ToStr(s) == IF s = <<>> THEN "" ELSE s[1] \o ToStr(Tail(s))

\* "\n".join([f"{i+1}. {text}" for i, text in enumerate(texts)])
RECURSIVE NumberedList(_, _)
NumberedList(texts, n) ==
    IF n = 0 THEN ""
    ELSE (IF n = 1 THEN "" ELSE NumberedList(texts, n - 1) \o "\n")
         \o ToString(n) \o ". " \o ToStr(texts[n])

\* the elements of seq at the positions in S, in order
RECURSIVE Select(_, _, _)
Select(seq, S, n) ==
    IF n = 0 THEN <<>>
    ELSE IF n \in S THEN Append(Select(seq, S, n - 1), seq[n])
    ELSE Select(seq, S, n - 1)

_validate_select_input_ZeroBased(field_data, user_input) ==
    LET options == field_data.options
        parsed == IntParse(user_input)
    IN  IF parsed.ok /\ 0 <= parsed.n /\ parsed.n < Len(options)
          THEN ValidResult(NoMessage, Str(OptionValue(options[parsed.n + 1])))
          ELSE InvalidResult("Please enter a number between 0 and "
                             \o ToString(Len(options) - 1) \o ".")

_validate_select_input(field_data, user_input) ==
    LET options == field_data.options
        option_values == [i \in DOMAIN options |-> OptionValue(options[i])]
        option_texts == [i \in DOMAIN options |-> OptionText(options[i])]
        ValueOrText(i) == IF option_values[i] # <<>> THEN option_values[i] ELSE option_texts[i]
        parsed == IntParse(user_input)
    IN  IF strip(user_input) = <<>>
          THEN ValidResult(NoMessage, Str(<<>>))
        ELSE IF parsed.ok
          THEN IF 0 <= parsed.n - 1 /\ parsed.n - 1 < Len(options)
                 THEN ValidResult(NoMessage, Str(ValueOrText(parsed.n)))
                 ELSE InvalidResult("Please enter a number between 1 and "
                                    \o ToString(Len(options)) \o ".")
        ELSE IF user_input \in Range(option_values)
          THEN ValidResult(NoMessage, Str(user_input))
        ELSE IF user_input \in Range(option_texts)
          THEN LET index == FirstIndex(option_texts, user_input)
               IN  ValidResult(NoMessage,
                               Str(IF option_values[index] # <<>> THEN option_values[index]
                                   ELSE user_input))
        ELSE LET matches == FuzzyMatches(option_texts, user_input)
                 matched == Select(option_texts, matches, Len(option_texts))
             IN  IF Cardinality(matches) = 1
                   THEN ValidResult(NoMessage, Str(ValueOrText(CHOOSE i \in matches : TRUE)))
                 ELSE IF Cardinality(matches) > 1
                   THEN InvalidResult("Multiple matches found. Please select one of the following:\n"
                                      \o NumberedList(matched, Len(matched)))
                 ELSE IF Len(options) <= 3
                   THEN InvalidResult("Invalid selection. Please choose one of these options:\n"
                                      \o NumberedList(option_texts, Len(option_texts)))
                 ELSE ValidResult(NoMessage,
                                  Str(user_input \o <<" ", "(", "n", "e", "e", "d", "s", " ", "v", "e", "r", "i", "f", "i", "c", "a", "t", "i", "o", "n", ")">>))

(***************************************************************************)
(* LLMHandler.validate_input                                               *)
(* What the language model does on one call is an input of the model:      *)
(*   raises       the chain raises                                         *)
(*   json_object  the response parses to a JSON object; keys may be absent *)
(*   json_other   the response parses to JSON that is not an object        *)
(*   text         the response is not JSON; text is the response           *)
(*   interface_raises  validate_input itself raises to its caller          *)
(***************************************************************************)
LLM(t, has_is_valid, is_valid, has_pv, pv, message, text) ==
    [t |-> t, has_is_valid |-> has_is_valid, is_valid |-> is_valid,
     has_pv |-> has_pv, pv |-> pv, message |-> message, text |-> text]

ResultDict(is_valid, message, pv) ==
    [raised |-> FALSE, is_dict |-> TRUE, has_is_valid |-> TRUE, is_valid |-> is_valid,
     has_message |-> TRUE, message |-> message, has_pv |-> TRUE, pv |-> pv]

is_valid_word == <<"i", "s", "_", "v", "a", "l", "i", "d">>
true_word == <<"t", "r", "u", "e">>
false_word == <<"f", "a", "l", "s", "e">>

ChainErrorResponse_Rejects(user_input) ==
    ResultDict(FALSE, "Validation service encountered an error.", None)

\* lines 157-164: the chain raised
ChainErrorResponse(user_input) ==
    ResultDict(TRUE, "Validation service encountered an error. Accepting input.",
               Str(user_input))

NonJsonResponse_Rejects(text, user_input) ==
    ResultDict(FALSE, "Response parsing error", None)

\* lines 140-156: the response is not JSON
NonJsonResponse(text, user_input) ==
    IF IsSubstring(is_valid_word, lower(text))
      THEN LET is_valid == /\ IsSubstring(true_word, lower(text))
                           /\ ~IsSubstring(false_word, lower(text))
           IN  ResultDict(is_valid,
                          IF is_valid THEN "Response parsing error, but input appears valid"
                          ELSE "Response parsing error, but input appears invalid",
                          IF is_valid THEN Str(user_input) ELSE None)
      ELSE ResultDict(TRUE, "Unable to validate clearly, accepting input.", Str(user_input))

validate_input(llm, user_input) ==
    IF llm.t = "interface_raises"
      THEN [ResultDict(FALSE, "", None) EXCEPT !.raised = TRUE, !.is_dict = FALSE]
    ELSE IF llm.t = "raises"
      THEN ChainErrorResponse(user_input)
    ELSE IF llm.t = "json_object"
      THEN [raised |-> FALSE, is_dict |-> TRUE,
            has_is_valid |-> llm.has_is_valid, is_valid |-> llm.is_valid,
            has_message |-> TRUE, message |-> llm.message,
            has_pv |-> llm.has_pv, pv |-> llm.pv]
    ELSE IF llm.t = "json_other"
      THEN [ResultDict(FALSE, "", None) EXCEPT !.is_dict = FALSE]
    ELSE NonJsonResponse(llm.text, user_input)

(***************************************************************************)
(* FormProcessor._validate_input_with_context                              *)
(***************************************************************************)
medical_abbreviations ==
    { [abbr |-> <<"m", "r", "i">>,
       expanded |-> <<"M", "a", "g", "n", "e", "t", "i", "c", " ", "R", "e", "s", "o", "n", "a", "n", "c", "e", " ", "I", "m", "a", "g", "i", "n", "g">>],
      [abbr |-> <<"c", "t">>,
       expanded |-> <<"C", "o", "m", "p", "u", "t", "e", "d", " ", "T", "o", "m", "o", "g", "r", "a", "p", "h", "y">>],
      [abbr |-> <<"u", "s">>,
       expanded |-> <<"U", "l", "t", "r", "a", "s", "o", "u", "n", "d">>],
      [abbr |-> <<"x", "r">>,
       expanded |-> <<"X", "-", "R", "a", "y">>],
      [abbr |-> <<"c", "x", "r">>,
       expanded |-> <<"C", "h", "e", "s", "t", " ", "X", "-", "R", "a", "y">>],
      [abbr |-> <<"p", "e", "t">>,
       expanded |-> <<"P", "o", "s", "i", "t", "r", "o", "n", " ", "E", "m", "i", "s", "s", "i", "o", "n", " ", "T", "o", "m", "o", "g", "r", "a", "p", "h", "y">>],
      [abbr |-> <<"n", "p">>,
       expanded |-> <<"N", "o", " ", "P", "a", "i", "n">>],
      [abbr |-> <<"n", "a", "d">>,
       expanded |-> <<"N", "o", " ", "A", "c", "u", "t", "e", " ", "D", "i", "s", "t", "r", "e", "s", "s">>],
      [abbr |-> <<"w", "d", "w", "n">>,
       expanded |-> <<"W", "e", "l", "l", "-", "D", "e", "v", "e", "l", "o", "p", "e", "d", ",", " ", "W", "e", "l", "l", "-", "N", "o", "u", "r", "i", "s", "h", "e", "d">>] }

\* Variant: the dictionary is looked up with the input as typed
IsMedicalAbbreviation_Untrimmed(user_input) ==
    \E m \in medical_abbreviations : m.abbr = user_input

IsMedicalAbbreviation(user_input) ==
    \E m \in medical_abbreviations : m.abbr = lower(strip(user_input))
Expanded(user_input) ==
    (CHOOSE m \in medical_abbreviations : m.abbr = lower(strip(user_input))).expanded

\* the code reaches the oracle call (line 286) for this input
OracleConsulted(field_data, user_input) ==
    /\ ~(field_data.required /\ strip(user_input) = <<>>)
    /\ field_data.type # "select"
    /\ ~IsMedicalAbbreviation(user_input)

OracleRaised_Propagates(field_data, user_input) ==
    [InvalidResult("") EXCEPT !.raises = TRUE]

\* lines 305-308: an exception of the oracle call is caught
OracleRaised(field_data, user_input) ==
    _flexible_medical_validation(field_data, user_input)

\* lines 288-303: the oracle call returned validation_result
OracleReturned(field_data, user_input, validation_result) ==
    IF validation_result.is_dict
      THEN LET is_valid == IF validation_result.has_is_valid
                             THEN validation_result.is_valid ELSE FALSE
               message == IF validation_result.has_message
                            THEN validation_result.message ELSE ""
               processed_value == IF validation_result.has_pv
                                    THEN validation_result.pv ELSE Str(user_input)
           IN  IF is_valid /\ Len(strip(user_input)) >= 2
                 THEN ValidResult(message, processed_value)
               ELSE IF ~is_valid
                 THEN InvalidResult(message)
               ELSE _flexible_medical_validation(field_data, user_input)
      ELSE _flexible_medical_validation(field_data, user_input)

_validate_input_with_context_SelectFirst(field_data, user_input, llm) ==
    IF field_data.type = "select"
      THEN _validate_select_input(field_data, user_input)
    ELSE IF field_data.required /\ strip(user_input) = <<>>
      THEN InvalidResult("This field is required. Please provide a value for {display_name}.")
    ELSE OracleReturned(field_data, user_input, validate_input(llm, user_input))

_validate_input_with_context(field_data, user_input, llm) ==
    IF field_data.required /\ strip(user_input) = <<>>
      THEN InvalidResult("This field is required. Please provide a value for {display_name}.")
    ELSE IF field_data.type = "select"
      THEN _validate_select_input(field_data, user_input)
    ELSE IF IsMedicalAbbreviation(user_input)
      THEN ValidResult(NoMessage,
                       Str(upper(user_input) \o <<" ", "(">> \o Expanded(user_input) \o <<")">>))
    ELSE LET validation_result == validate_input(llm, user_input)
         IN  IF validation_result.raised
               THEN OracleRaised(field_data, user_input)
               ELSE OracleReturned(field_data, user_input, validation_result)

(***************************************************************************)
(* FormProcessor._generate_guidance                                        *)
(***************************************************************************)
\* Variant: the example is repeated at every attempt
_generate_guidance_ExampleOnly(field_data, attempt) == "For example: {examples}"

_generate_guidance(field_data, attempt) ==
    IF attempt = 1 THEN "For example: {examples}"
    ELSE IF attempt = 2
      THEN IF field_data.type = "date"
             THEN "You can enter a date like MM/DD/YYYY (e.g., 04/18/2025)."
           ELSE IF field_data.type = "number"
             THEN "Please enter a numeric value (e.g., 42 or 7.5)."
           ELSE IF field_data.type = "email"
             THEN "Please enter a valid email address (e.g., name@example.com)."
           ELSE IF field_data.type = "select"
             THEN "You can enter the number or the exact text of one of the options."
           ELSE "For {display_name}, you can enter any relevant information. If there is none, you can type 'none'."
    ELSE IF field_data.required
      THEN "This is a required field. Please provide any relevant information to continue."
      ELSE "This field is optional. You can type 'none' or leave it empty to skip."

(***************************************************************************)
(* Schemas: form_data is an ordered mapping field name -> field dict,      *)
(* modelled as a sequence of field dicts that carry their name.            *)
(***************************************************************************)
NoConditional == [present |-> FALSE, depends_on |-> <<>>, values |-> {}]
Conditional(depends_on, values) == [present |-> TRUE, depends_on |-> depends_on, values |-> values]

\* the 'validation' entry the MRRT parser attaches to a field (min, max)
NoValidation == [present |-> FALSE, min |-> 0, max |-> 0]
Validation(min, max) == [present |-> TRUE, min |-> min, max |-> max]

Field(name, type, required, hidden, options, conditional) ==
    [name |-> name, type |-> type, required |-> required, hidden |-> hidden,
     options |-> options, conditional |-> conditional, validation |-> NoValidation,
     value |-> Str(<<>>), needs_review |-> FALSE, review_reason |-> None]

Option(value, label) == [value |-> value, label |-> label, has_text |-> FALSE, text |-> <<>>]
\* an option as template_parser.py and radreport_converter.py emit it: {value, text}
TextOption(value, text) == [value |-> value, label |-> <<>>, has_text |-> TRUE, text |-> text]

\* the sample data process_form creates when no form data is found
SampleForm ==
    << Field(<<"p", "a", "t", "i", "e", "n", "t", "_", "n", "a", "m", "e">>,
             "text", TRUE, FALSE, <<>>, NoConditional) >>

max_attempts == 3
Maximum_attempts_reached == <<"M", "a", "x", "i", "m", "u", "m", " ", "v", "a", "l", "i", "d", "a", "t", "i", "o", "n", " ", "a", "t", "t", "e", "m", "p", "t", "s", " ", "r", "e", "a", "c", "h", "e", "d">>

(***************************************************************************)
(* Bounds and the inputs the model draws from                              *)
(***************************************************************************)
\* process_form calls in one behaviour
MaxRuns == 2
\* lines the user enters in one behaviour
MaxInputs == 4

dx == <<"d", "x">>
note == <<"n", "o", "t", "e">>
sys_id == <<"_", "i", "d">>
dob == <<"d", "o", "b">>
sex == <<"s", "e", "x">>

Schemas ==
    { <<>>,
      << Field(dx, "text", TRUE, FALSE, <<>>, NoConditional),
         Field(note, "textarea", FALSE, FALSE, <<>>, Conditional(dx, {<<"o", "k">>})) >>,
      << Field(sys_id, "text", FALSE, FALSE, <<>>, NoConditional),
         Field(dob, "date", FALSE, FALSE, <<>>, NoConditional),
         Field(sex, "select", TRUE, TRUE,
               << Option(<<"M">>, <<"M", "a", "l", "e">>), Option(<<"F">>, <<"F", "e", "m", "a", "l", "e">>) >>, NoConditional) >> }

FormContexts == {"", "Radiology intake form"}

\* console.input: what the user types
UserInputs == { <<>>, <<" ", "N", "A", " ">>, <<"h", "i">> }

\* what the language model does on one validation call
LLMObject(has_is_valid, is_valid, has_pv, pv) ==
    LLM("json_object", has_is_valid, is_valid, has_pv, pv, "oracle message", <<>>)
LLMBehaviours ==
    { LLM("interface_raises", FALSE, FALSE, FALSE, None, "", <<>>),
      LLM("raises", FALSE, FALSE, FALSE, None, "", <<>>),
      LLMObject(TRUE, FALSE, TRUE, None),
      LLMObject(TRUE, TRUE, FALSE, None),
      LLMObject(TRUE, TRUE, TRUE, Str(<<>>)),
      LLMObject(TRUE, TRUE, TRUE, None) }

(***************************************************************************)
(* Chat-history entries                                                    *)
(***************************************************************************)
Entry(kind, user, assistant, field, value, error) ==
    [kind |-> kind, user |-> user, assistant |-> assistant, field |-> field,
     value |-> value, error |-> error]

ContextEntry(ctx) == Entry("context", <<>>, <<ctx>>, <<>>, None, "")
SkipEntry(user, field) ==
    Entry("skip", user, <<"I've marked {field} as 'Not specified'. Moving on.">>, field,
          Str(Not_specified), "")
SuccessEntry(user, field, value) == Entry("success", user, <<"{field_prompt}">>, field, value, "")
FailureEntry(user, field, message, guidance) ==
    Entry("failure", user, <<message, guidance>>, field, None, message)
\* Variant: the escalation is recorded as one more failed attempt
FlaggedEntry_AsFailure(user, field) ==
    Entry("failure", user, <<"I'll accept your input and mark this for later review.", "">>, field,
          None, "")

FlaggedEntry(user, field) ==
    Entry("flagged", user, <<"I'll accept your input and mark this for later review.">>, field,
          None, "")

\* FormProcessor._get_last_exchanges
_get_last_exchanges(history, num_exchanges) ==
    IF history = <<>> THEN <<>>
    ELSE LET n == IF num_exchanges < Len(history) THEN num_exchanges ELSE Len(history)
         IN  SubSeq(history, Len(history) - n + 1, Len(history))

(***************************************************************************)
(* FormProcessor.__init__ and load_form                                    *)
(***************************************************************************)
\* the state after FormProcessor(llm_interface, form_context)
Constructed(ctx) ==
    /\ form_data = [is_none |-> TRUE, fields |-> <<>>]
    /\ form_context = ctx
    /\ chat_history = <<>>
    /\ needs_review = <<>>
    /\ completed_form = [fields |-> <<>>, review_status |-> [present |-> FALSE, fields_needing_review |-> <<>>]]
    /\ pc = "idle"
    /\ field_idx = 0
    /\ attempts = 0
    /\ raw_input = None
    /\ last_exchanges = <<>>
    /\ status = <<>>
    /\ prompted = <<>>
    /\ validations = <<>>
    /\ oracle_calls = <<>>
    /\ schema_missing = FALSE
    /\ runs = 0
    /\ asked = 0

Init ==
    /\ \E ctx \in FormContexts : Constructed(ctx)
    /\ arg_field_data = SampleForm[1]
    /\ arg_user_input = <<>>
    /\ arg_llm = LLM("raises", FALSE, FALSE, FALSE, None, "", <<>>)
    /\ called = FALSE
    /\ ret_validation = InvalidResult("")
    /\ recalled = FALSE
    /\ ret_revalidation = InvalidResult("")
    /\ replied = FALSE
    /\ arg_reply = <<>>
    /\ ret_reply = InvalidResult("")
    /\ ManagerUnused

\* main.py loads the form once, right after constructing the FormProcessor
\* and before the first process_form call; later calls work on that form
load_form(form_json) ==
    /\ pc = "idle"
    /\ runs = 0
    /\ form_data' = [is_none |-> FALSE, fields |-> form_json]
    /\ UNCHANGED <<form_context, chat_history, needs_review, completed_form, pc, field_idx,
                   attempts, raw_input, last_exchanges, status, prompted, validations,
                   oracle_calls, schema_missing, runs, asked>>
    /\ UNCHANGED validator_vars
    /\ UNCHANGED manager_vars

(***************************************************************************)
(* FormProcessor.process_form                                              *)
(* One action runs the code from one blocking point to the next:           *)
(* process_form_call from the call to the first console.input (or to the   *)
(* return), process_form_input from the return of console.input to the     *)
(* next console.input (or to the return).                                  *)
(***************************************************************************)
\* not self.form_data
FormDataMissing(fd) == fd.is_none \/ fd.fields = <<>>

FormDataOrSample_NoSample(fd) == [is_none |-> FALSE, fields |-> fd.fields]

\* lines 30-40: the form the call works on
FormDataOrSample(fd) ==
    IF FormDataMissing(fd) THEN [is_none |-> FALSE, fields |-> SampleForm] ELSE fd

IsProcessed_IgnoresHidden(field_data) ==
    ~StartsWith(field_data.name, <<"_">>)

\* line 58: the field is processed (neither hidden nor system-managed)
IsProcessed(field_data) ==
    ~(field_data.hidden \/ StartsWith(field_data.name, <<"_">>))

LoopContinues_OneMore(att, valid) == att <= max_attempts /\ ~valid

\* line 67: the while condition
LoopContinues(att, valid) == att < max_attempts /\ ~valid

\* line 77: the skip branch is taken
SkipTaken(field_data, user_input) ==
    ~field_data.required /\ _is_skip_request(user_input)

Escalate_Stripped(field_data, raw) ==
    [field_data EXCEPT !.value = Str(strip(raw.s)), !.needs_review = TRUE,
                       !.review_reason = Str(Maximum_attempts_reached)]

\* lines 133-135
Escalate(field_data, raw) ==
    [field_data EXCEPT !.value = raw, !.needs_review = TRUE,
                       !.review_reason = Str(Maximum_attempts_reached)]

\* lines 148-152
ReviewStatus(nr) ==
    IF nr # <<>> THEN [present |-> TRUE, fields_needing_review |-> nr]
    ELSE [present |-> FALSE, fields_needing_review |-> <<>>]

NextProcessed_Revisits(fields, from) ==
    IF from > 1 THEN from - 1 ELSE 1

\* the next field at or after position from that the for loop processes; 0 if none
NextProcessed(fields, from) ==
    LET S == {i \in DOMAIN fields : i >= from /\ IsProcessed(fields[i])}
    IN  IF S = {} THEN 0 ELSE SetMin(S)

\* The for loop goes on from position from: it prompts the next processed
\* field and blocks in console.input, or the call returns.
ContinueFrom(from, fields1, history1, nr1, status1, prompted1) ==
    LET i == NextProcessed(fields1, from)
    IN  /\ form_data' = [is_none |-> FALSE, fields |-> fields1]
        /\ chat_history' = history1
        /\ needs_review' = nr1
        /\ attempts' = 0
        /\ IF i = 0
             THEN /\ pc' = "idle"
                  /\ field_idx' = 0
                  /\ last_exchanges' = <<>>
                  /\ status' = status1
                  /\ prompted' = prompted1
                  /\ completed_form' = [fields |-> fields1, review_status |-> ReviewStatus(nr1)]
             ELSE /\ pc' = "awaiting_input"
                  /\ field_idx' = i
                  /\ last_exchanges' = _get_last_exchanges(history1, 2)
                  /\ status' = [status1 EXCEPT ![i] = "AWAITING_INPUT"]
                  /\ prompted' = Append(prompted1, fields1[i].name)
                  /\ completed_form' = [fields |-> fields1,
                                        review_status |-> [present |-> FALSE, fields_needing_review |-> <<>>]]

process_form_call ==
    /\ pc # "awaiting_input"
    /\ runs < MaxRuns
    /\ LET fd == FormDataOrSample(form_data)
           \* lines 46-53
           history1 == IF form_context # "" THEN Append(chat_history, ContextEntry(form_context))
                       ELSE chat_history
       IN  /\ schema_missing' = FormDataMissing(form_data)
           /\ runs' = runs + 1
           /\ raw_input' = None
           /\ validations' = [i \in DOMAIN fd.fields |-> 0]
           /\ oracle_calls' = [i \in DOMAIN fd.fields |-> 0]
           /\ ContinueFrom(1, fd.fields, history1, needs_review,
                           [i \in DOMAIN fd.fields |-> "NOT_VISITED"], <<>>)
    /\ UNCHANGED <<form_context, asked>>
    /\ UNCHANGED validator_vars
    /\ UNCHANGED manager_vars

process_form_input(user_input, llm) ==
    /\ pc = "awaiting_input"
    /\ asked < MaxInputs
    /\ asked' = asked + 1
    /\ LET i == field_idx
           field_data == form_data.fields[i]
           field_name == field_data.name
       IN  IF SkipTaken(field_data, user_input)
             THEN \* lines 77-87
                  /\ raw_input' = raw_input
                  /\ validations' = validations
                  /\ oracle_calls' = oracle_calls
                  /\ ContinueFrom(i + 1,
                                  [form_data.fields EXCEPT ![i].value = Str(Not_specified)],
                                  Append(chat_history, SkipEntry(user_input, field_name)),
                                  needs_review,
                                  [status EXCEPT ![i] = "ACCEPTED"], prompted)
             ELSE LET result == _validate_input_with_context(field_data, user_input, llm)
                      raw_input1 == Str(user_input)
                  IN  /\ raw_input' = raw_input1
                      /\ validations' = [validations EXCEPT ![i] = @ + 1]
                      /\ oracle_calls' = [oracle_calls EXCEPT ![i] =
                                             IF OracleConsulted(field_data, user_input) THEN @ + 1 ELSE @]
                      /\ IF result.raises
                           THEN \* the exception leaves process_form
                                /\ pc' = "aborted"
                                /\ UNCHANGED <<form_data, chat_history, needs_review, completed_form,
                                               field_idx, attempts, last_exchanges, status, prompted>>
                         ELSE IF result.is_valid
                           THEN \* lines 97-112
                                ContinueFrom(i + 1,
                                             [form_data.fields EXCEPT ![i].value = result.value],
                                             Append(chat_history,
                                                    SuccessEntry(user_input, field_name, result.value)),
                                             needs_review,
                                             [status EXCEPT ![i] = "ACCEPTED"], prompted)
                           ELSE \* lines 113-128
                                LET attempts1 == attempts + 1
                                    history1 == Append(chat_history,
                                                       FailureEntry(user_input, field_name, result.message,
                                                                    _generate_guidance(field_data, attempts1)))
                                IN  IF LoopContinues(attempts1, FALSE)
                                      THEN /\ attempts' = attempts1
                                           /\ chat_history' = history1
                                           /\ UNCHANGED <<form_data, needs_review, completed_form, pc,
                                                          field_idx, last_exchanges, status, prompted>>
                                      ELSE \* lines 131-145
                                           ContinueFrom(i + 1,
                                                        [form_data.fields EXCEPT ![i] = Escalate(field_data, raw_input1)],
                                                        Append(history1, FlaggedEntry(raw_input1.s, field_name)),
                                                        Append(needs_review, field_name),
                                                        [status EXCEPT ![i] = "ESCALATED"], prompted)
    /\ UNCHANGED <<form_context, schema_missing, runs>>
    /\ UNCHANGED validator_vars
    /\ UNCHANGED manager_vars

Next ==
    \/ \E form_json \in Schemas : load_form(form_json)
    \/ process_form_call
    \/ \E user_input \in UserInputs, llm \in LLMBehaviours : process_form_input(user_input, llm)

Spec == Init /\ [][Next]_vars

(***************************************************************************)
(* process_form_with_speech (src/main.py), with both speech handlers       *)
(* available; without them the function is process_form itself (lines      *)
(* 118-121).  It works on the FormProcessor's state.                        *)
(***************************************************************************)
\* lines 261-267: the entry that records an escalation
SpeechFlaggedEntry(user, field) ==
    Entry("flagged", user,
          <<"I'll accept your input and mark this for later review. Let's continue with the form.">>,
          field, None, "")

\* What the listener delivered within the timeout: no transcript, or one
SpeechResults == {<<>>} \cup {<<text>> : text \in UserInputs}

\* lines 183-193: the first transcript, or the typed fallback after the timeout
EffectiveInput(speech_result, typed) ==
    IF speech_result = <<>> THEN typed ELSE speech_result[1]

process_form_with_speech_call ==
    /\ pc # "awaiting_input"
    /\ runs < MaxRuns
    /\ runs' = runs + 1
    /\ schema_missing' = FormDataMissing(form_data)
    /\ raw_input' = None
    /\ IF form_data.is_none
         THEN \* line 124: dict(None) raises TypeError
              /\ pc' = "aborted"
              /\ validations' = <<>>
              /\ oracle_calls' = <<>>
              /\ UNCHANGED <<form_data, chat_history, needs_review, completed_form,
                             field_idx, attempts, last_exchanges, status, prompted>>
         ELSE LET \* lines 127-137
                  history1 == IF form_context # "" THEN Append(chat_history, ContextEntry(form_context))
                              ELSE chat_history
              IN  /\ validations' = [i \in DOMAIN form_data.fields |-> 0]
                  /\ oracle_calls' = [i \in DOMAIN form_data.fields |-> 0]
                  /\ ContinueFrom(1, form_data.fields, history1, needs_review,
                                  [i \in DOMAIN form_data.fields |-> "NOT_VISITED"], <<>>)
    /\ UNCHANGED <<form_context, asked>>
    /\ UNCHANGED validator_vars
    /\ UNCHANGED manager_vars

process_form_with_speech_input(speech_result, typed, llm) ==
    /\ pc = "awaiting_input"
    /\ asked < MaxInputs
    /\ asked' = asked + 1
    /\ LET user_input == EffectiveInput(speech_result, typed)
           i == field_idx
           field_data == form_data.fields[i]
           field_name == field_data.name
       IN  IF SkipTaken(field_data, user_input)
             THEN \* lines 196-210
                  /\ raw_input' = raw_input
                  /\ validations' = validations
                  /\ oracle_calls' = oracle_calls
                  /\ ContinueFrom(i + 1,
                                  [form_data.fields EXCEPT ![i].value = Str(Not_specified)],
                                  Append(chat_history, SkipEntry(user_input, field_name)),
                                  needs_review,
                                  [status EXCEPT ![i] = "ACCEPTED"], prompted)
             ELSE LET result == _validate_input_with_context(field_data, user_input, llm)
                      raw_input1 == Str(user_input)
                  IN  /\ raw_input' = raw_input1
                      /\ validations' = [validations EXCEPT ![i] = @ + 1]
                      /\ oracle_calls' = [oracle_calls EXCEPT ![i] =
                                             IF OracleConsulted(field_data, user_input) THEN @ + 1 ELSE @]
                      /\ IF result.raises
                           THEN /\ pc' = "aborted"
                                /\ UNCHANGED <<form_data, chat_history, needs_review, completed_form,
                                               field_idx, attempts, last_exchanges, status, prompted>>
                         ELSE IF result.is_valid
                           THEN \* lines 220-237
                                ContinueFrom(i + 1,
                                             [form_data.fields EXCEPT ![i].value = result.value],
                                             Append(chat_history,
                                                    SuccessEntry(user_input, field_name, result.value)),
                                             needs_review,
                                             [status EXCEPT ![i] = "ACCEPTED"], prompted)
                           ELSE \* lines 238-256
                                LET attempts1 == attempts + 1
                                    history1 == Append(chat_history,
                                                       FailureEntry(user_input, field_name, result.message,
                                                                    _generate_guidance(field_data, attempts1)))
                                IN  IF LoopContinues(attempts1, FALSE)
                                      THEN /\ attempts' = attempts1
                                           /\ chat_history' = history1
                                           /\ UNCHANGED <<form_data, needs_review, completed_form, pc,
                                                          field_idx, last_exchanges, status, prompted>>
                                      ELSE \* lines 258-267
                                           ContinueFrom(i + 1,
                                                        [form_data.fields EXCEPT ![i] = Escalate(field_data, raw_input1)],
                                                        Append(history1, SpeechFlaggedEntry(raw_input1.s, field_name)),
                                                        Append(needs_review, field_name),
                                                        [status EXCEPT ![i] = "ESCALATED"], prompted)
    /\ UNCHANGED <<form_context, schema_missing, runs>>
    /\ UNCHANGED validator_vars
    /\ UNCHANGED manager_vars

NextSpeech ==
    \/ \E form_json \in Schemas : load_form(form_json)
    \/ process_form_with_speech_call
    \/ \E speech_result \in SpeechResults, typed \in UserInputs, llm \in LLMBehaviours :
           process_form_with_speech_input(speech_result, typed, llm)

SpecSpeech == Init /\ [][NextSpeech]_vars

(***************************************************************************)
(* _validate_input_with_context as a function: one call on arguments drawn *)
(* from the sets below.                                                    *)
(***************************************************************************)
FieldTypes == {"text", "textarea", "number", "date", "email", "select", "radio"}
SexOptions == << Option(<<"M">>, <<"M", "a", "l", "e">>), Option(<<"F">>, <<"F", "e", "m", "a", "l", "e">>) >>
GenderTextOptions ==
    << TextOption(<<"m", "a", "l", "e">>, <<"M", "a", "l", "e">>),
       TextOption(<<"f", "e", "m", "a", "l", "e">>, <<"F", "e", "m", "a", "l", "e">>),
       TextOption(<<"o", "t", "h", "e", "r">>, <<"O", "t", "h", "e", "r">>) >>
SideOptions ==
    << Option(<<"R">>, <<"R", "i", "g", "h", "t">>), Option(<<"L">>, <<"L", "e", "f", "t">>),
       Option(<<"B">>, <<"B", "o", "t", "h">>), Option(<<"N">>, <<"N", "o", "n", "e">>) >>
SideTextOptions ==
    << TextOption(<<"R">>, <<"R", "i", "g", "h", "t">>), TextOption(<<"L">>, <<"L", "e", "f", "t">>),
       TextOption(<<"B">>, <<"B", "o", "t", "h">>), TextOption(<<"N">>, <<"N", "o", "n", "e">>) >>
ValidatedFields ==
    { Field(dx, ty, req, FALSE, IF ty = "select" THEN SexOptions ELSE <<>>, NoConditional) :
          ty \in FieldTypes, req \in BOOLEAN }
    \cup { Field(dx, "select", FALSE, FALSE, GenderTextOptions, NoConditional),
           Field(dx, "select", TRUE, FALSE, SideOptions, NoConditional),
           Field(dx, "select", TRUE, FALSE, SideTextOptions, NoConditional),
           [Field(dx, "number", TRUE, FALSE, <<>>, NoConditional) EXCEPT !.validation = Validation(0, 10)] }

ValidatedInputs ==
    { <<>>, <<" ">>, <<"x">>, <<"5">>, <<"h", "i">>, <<" ", "N", "A", " ">>, <<"c", "t">>, <<" ", "M", "r", "i">>, <<"o">>, <<"4", ".", "5">>, <<"1", "/", "2", "/", "2", "5">>, <<"a", "@", "b", ".", "c">>, <<"a", "s", "d", "f", "a", "s", "d", "f", "a">>, <<"M">>,
      <<"F">>, <<"1">>, <<"2">>, <<"3">>, <<"0">>, <<"-", "1">>, <<" ", "2", " ">>,
      <<"M", "a", "l", "e">>, <<"F", "e", "m", "a", "l", "e">>, <<"m", "x">>, <<"1", "5">>,
      <<"2", "0", "2", "5", "-", "1", "3", "-", "4", "0">>,
      <<"0", "4", "/", "1", "8", "/", "2", "0", "2", "5">> }

LLMTexts == { <<"L", "o", "o", "k", "s", " ", "f", "i", "n", "e">>, <<"i", "s", "_", "v", "a", "l", "i", "d", ":", " ", "t", "r", "u", "e">>, <<"\"", "i", "s", "_", "v", "a", "l", "i", "d", "\"", ":", " ", "F", "a", "l", "s", "e">>, <<"[", "i", "s", "_", "v", "a", "l", "i", "d", "]", " ", "t", "r", "u", "e", " ", "o", "r", " ", "f", "a", "l", "s", "e">> }
LLMValues == { None, Str(<<>>), Str(<<"O", "K">>) }
ValidatedLLMBehaviours ==
    { LLM("interface_raises", FALSE, FALSE, FALSE, None, "", <<>>),
      LLM("raises", FALSE, FALSE, FALSE, None, "", <<>>),
      LLM("json_other", FALSE, FALSE, FALSE, None, "", <<>>) }
    \cup { LLM("text", FALSE, FALSE, FALSE, None, "", txt) : txt \in LLMTexts }
    \cup { LLMObject(hv, v, FALSE, None) : hv \in BOOLEAN, v \in BOOLEAN }
    \cup { LLMObject(TRUE, v, TRUE, pv) : v \in BOOLEAN, pv \in LLMValues }

InitValidator ==
    /\ Constructed("")
    /\ arg_field_data \in ValidatedFields
    /\ arg_user_input \in ValidatedInputs
    /\ arg_llm \in ValidatedLLMBehaviours
    /\ called = FALSE
    /\ ret_validation = InvalidResult("")
    /\ recalled = FALSE
    /\ ret_revalidation = InvalidResult("")
    /\ replied = FALSE
    /\ arg_reply = <<>>
    /\ ret_reply = InvalidResult("")
    /\ ManagerUnused

call_validate_input_with_context ==
    /\ ~called
    /\ called' = TRUE
    /\ ret_validation' = _validate_input_with_context(arg_field_data, arg_user_input, arg_llm)
    /\ UNCHANGED <<arg_field_data, arg_user_input, arg_llm, recalled, ret_revalidation,
                   replied, arg_reply, ret_reply>>
    /\ UNCHANGED processor_vars
    /\ UNCHANGED manager_vars

\* what process_form does with the result before it validates again:
\* lines 97-108 on a valid result, lines 113-128 on an invalid one, and
\* lines 131-145 when that was the last attempt
record_validation(last_attempt) ==
    /\ called /\ ~recalled
    /\ chat_history = <<>>
    /\ IF ret_validation.is_valid
         THEN /\ chat_history' = <<SuccessEntry(arg_user_input, arg_field_data.name,
                                                ret_validation.value)>>
              /\ needs_review' = needs_review
         ELSE LET failed == <<FailureEntry(arg_user_input, arg_field_data.name,
                                           ret_validation.message,
                                           _generate_guidance(arg_field_data, max_attempts))>>
              IN  IF last_attempt
                    THEN /\ chat_history' = Append(failed, FlaggedEntry(arg_user_input,
                                                                        arg_field_data.name))
                         /\ needs_review' = Append(needs_review, arg_field_data.name)
                    ELSE /\ chat_history' = failed
                         /\ needs_review' = needs_review
    /\ UNCHANGED <<form_data, form_context, completed_form, pc, field_idx, attempts,
                   raw_input, last_exchanges, status, prompted, validations, oracle_calls,
                   schema_missing, runs, asked>>
    /\ UNCHANGED validator_vars
    /\ UNCHANGED manager_vars

\* the validator is called again with the same arguments
call_validate_input_with_context_again ==
    /\ called /\ ~recalled
    /\ chat_history # <<>>
    /\ recalled' = TRUE
    /\ ret_revalidation' = _validate_input_with_context(arg_field_data, arg_user_input, arg_llm)
    /\ UNCHANGED <<arg_field_data, arg_user_input, arg_llm, called, ret_validation,
                   replied, arg_reply, ret_reply>>
    /\ UNCHANGED processor_vars
    /\ UNCHANGED manager_vars

\* What the user answers to a numbered list
Replies == {<<"1">>, <<"2">>, <<"3">>}

\* the next attempt of the retry loop (lines 67-95): the rejection was
\* recorded, attempts are left, and the user's next input is validated
call_validate_input_with_context_reply(reply) ==
    /\ called /\ ~replied /\ ~recalled
    /\ ~ret_validation.is_valid
    /\ chat_history # <<>> /\ needs_review = <<>>
    /\ replied' = TRUE
    /\ arg_reply' = reply
    /\ ret_reply' = _validate_input_with_context(arg_field_data, reply, arg_llm)
    /\ UNCHANGED <<arg_field_data, arg_user_input, arg_llm, called, ret_validation,
                   recalled, ret_revalidation>>
    /\ UNCHANGED processor_vars
    /\ UNCHANGED manager_vars

NextValidator ==
    \/ call_validate_input_with_context
    \/ \E last_attempt \in BOOLEAN : record_validation(last_attempt)
    \/ \E reply \in Replies : call_validate_input_with_context_reply(reply)
    \/ call_validate_input_with_context_again

SpecValidator == InitValidator /\ [][NextValidator]_vars

(***************************************************************************)
(* Properties                                                              *)
(***************************************************************************)
\* the last process_form call has returned; completed_form is what it returned
Returned == pc = "idle" /\ runs > 0

Terminal(i) == status[i] \in {"ACCEPTED", "ESCALATED"}

\* chat-history positions of the failure records of a field
FailuresOf(name) ==
    {k \in DOMAIN chat_history :
        chat_history[k].kind = "failure" /\ chat_history[k].field = name}

\* names of the fields the current call escalated, in processing order
RECURSIVE EscalatedUpTo(_)
EscalatedUpTo(n) ==
    IF n = 0 THEN <<>>
    ELSE IF status[n] = "ESCALATED"
      THEN Append(EscalatedUpTo(n - 1), completed_form.fields[n].name)
      ELSE EscalatedUpTo(n - 1)
EscalatedNames == EscalatedUpTo(Len(status))

\* C1  Bounded retry: in every call of process_form no field is validated
\* more than max_attempts (3) times, whatever the user types and whatever
\* the oracle answers.
C1_BoundedRetry ==
    \A i \in DOMAIN validations : validations[i] <= max_attempts

C1_Witness ==
    \E i \in DOMAIN status : status[i] = "ESCALATED" /\ validations[i] = max_attempts

\* C2  Escalation value preservation: a field that is ESCALATED was
\* validated max_attempts times, has needs_review = true, review_reason
\* "Maximum validation attempts reached", and its value is the user's text
\* of its last failed attempt, character for character.
C2_EscalationKeepsLastRawInput ==
    \A i \in DOMAIN status :
        status[i] = "ESCALATED" =>
            LET f == completed_form.fields[i]
            IN  /\ validations[i] = max_attempts
                /\ f.needs_review
                /\ f.review_reason = Str(Maximum_attempts_reached)
                /\ FailuresOf(f.name) # {}
                /\ f.value = Str(chat_history[SetMax(FailuresOf(f.name))].user)

\* an escalated value that differs from its trimmed form and from the
\* field's first rejected input
C2_Witness ==
    \E i \in DOMAIN status :
        /\ status[i] = "ESCALATED"
        /\ LET f == completed_form.fields[i]
           IN  /\ f.value.s # strip(f.value.s)
               /\ \E k \in FailuresOf(f.name) : Str(chat_history[k].user) # f.value

\* C3  Review ledger exactness: when process_form has returned,
\* _review_status.fields_needing_review is exactly the sequence of the
\* fields that call escalated, in processing order, also on a second call
\* on the same FormProcessor.
C3_LedgerListsThisCallsEscalations ==
    Returned => completed_form.review_status.fields_needing_review = EscalatedNames

\* C4  Required-field invariant: a required field is never ACCEPTED with an
\* empty value ("" or None), whatever the oracle answers.
C4_RequiredNeverAcceptedEmpty ==
    \A i \in DOMAIN status :
        (status[i] = "ACCEPTED" /\ completed_form.fields[i].required) =>
            ~IsEmptyValue(completed_form.fields[i].value)

\* C5  Optional-skip invariant: when the first input of an optional field
\* is a skip phrase, that step ends the field ACCEPTED with value
\* "Not specified", with no validator call and no oracle call, and the
\* field carries no needs_review.
C5_OptionalSkipOnFirstInput ==
    [][\A user_input \in UserInputs, llm \in LLMBehaviours :
          ( /\ process_form_input(user_input, llm)
            /\ validations[field_idx] = 0
            /\ ~form_data.fields[field_idx].required
            /\ _is_skip_request(user_input) )
          => ( /\ status'[field_idx] = "ACCEPTED"
               /\ completed_form'.fields[field_idx].value = Str(Not_specified)
               /\ validations'[field_idx] = 0
               /\ oracle_calls'[field_idx] = 0
               /\ ~completed_form'.fields[field_idx].needs_review )]_vars

\* the dependency of field i has been processed and its value is one of
\* the conditional's values
DependencySatisfied(i) ==
    LET c == completed_form.fields[i].conditional
    IN  \E j \in DOMAIN status :
            /\ completed_form.fields[j].name = c.depends_on
            /\ Terminal(j)
            /\ completed_form.fields[j].value \in {Str(v) : v \in c.values}

\* C6  Conditional gating: a field with a conditional whose dependency is
\* unprocessed, or processed with a value outside the conditional's
\* values, is not prompted, gets no value and gets no chat-history entry.
C6_ConditionalGating ==
    \A i \in DOMAIN status :
        (completed_form.fields[i].conditional.present /\ ~DependencySatisfied(i)) =>
            /\ status[i] = "NOT_VISITED"
            /\ completed_form.fields[i].name \notin Range(prompted)

\* inputs the current call can still consume: max_attempts per field not
\* yet finished, less the attempts used on the current one
Remaining ==
    IF pc = "awaiting_input"
      THEN max_attempts *
             Cardinality({j \in DOMAIN status :
                            j >= field_idx /\ IsProcessed(completed_form.fields[j])})
           - attempts
      ELSE 0

\* C7  No abort, guaranteed completion: no exception leaves process_form;
\* every line the user enters brings the call strictly closer to its
\* return (Remaining decreases and is never negative), so the call returns
\* after at most max_attempts inputs per field; and when it has returned,
\* every field that is neither hidden nor system-managed is ACCEPTED or
\* ESCALATED.
C7_NoAbortCompletion ==
    /\ [](pc # "aborted")
    /\ [](Remaining >= 0)
    /\ [](pc = "awaiting_input" => Remaining > 0)
    /\ [](Returned => \A i \in DOMAIN status :
                         IsProcessed(completed_form.fields[i]) => Terminal(i))
    /\ [][pc = "awaiting_input" => Remaining' < Remaining]_vars

\* a call that returned after escalating one field and then finishing a later one
C7_Witness ==
    /\ Returned
    /\ \E i, j \in DOMAIN status : i < j /\ status[i] = "ESCALATED" /\ Terminal(j)

\* the oracle raised on a call that reached it
OracleRaisedOnCall ==
    /\ called
    /\ arg_llm.t \in {"raises", "interface_raises"}
    /\ OracleConsulted(arg_field_data, arg_user_input)
    /\ strip(arg_user_input) # <<>>

\* the type-specific format check of the deterministic fallback
FormatOK(field_type, input_text) ==
    CASE field_type = "date" ->
           MatchesDate1(input_text) \/ MatchesDate2(input_text) \/ MatchesDate3(input_text)
      [] field_type = "number" -> MatchesNumber(input_text)
      [] field_type = "email" -> MatchesEmail(input_text)
      [] field_type \in {"text", "textarea"} -> ~_is_completely_random(input_text)
      [] OTHER -> TRUE

\* what the deterministic fallback decides for the call's arguments:
\* a common medical term is accepted upper-cased, any other input is
\* accepted trimmed iff it passes the field type's format check
FallbackDecides ==
    LET input_text == strip(arg_user_input)
    IN  IF lower(input_text) \in common_medical_terms
          THEN ret_validation.is_valid /\ ret_validation.value = Str(upper(input_text))
        ELSE IF FormatOK(arg_field_data.type, input_text)
          THEN ret_validation.is_valid /\ ret_validation.value = Str(input_text)
          ELSE ~ret_validation.is_valid /\ ret_validation.value = None

OracleUnparseableOnCall ==
    /\ called
    /\ arg_llm.t \in {"text", "json_other"}
    /\ OracleConsulted(arg_field_data, arg_user_input)
    /\ strip(arg_user_input) # <<>>

C10_MissingSchemaRaises ==
    schema_missing => (pc = "aborted" /\ prompted = <<>>)

\* C10 amended: a call of process_form that finds no form data raises
\* nothing: it replaces the form data by the one-field sample form (the
\* required text field patient_name) and processes it, so patient_name is
\* prompted and no other field is.
C10_MissingSchemaUsesSample ==
    schema_missing =>
        /\ pc # "aborted"
        /\ Len(completed_form.fields) = 1
        /\ completed_form.fields[1].name = SampleForm[1].name
        /\ completed_form.fields[1].type = "text"
        /\ completed_form.fields[1].required
        /\ prompted = <<SampleForm[1].name>>

\* the sample field is waiting for the user's input
C10_Witness ==
    schema_missing /\ pc = "awaiting_input" /\ status[1] = "AWAITING_INPUT"

\* C11  Write-once results: while a process_form call is running, a step
\* changes the completed-form entry of no field other than the current
\* one, and changes the current field's entry only in the step that ends
\* the field (skip, accept or escalation): a failed attempt that leaves the
\* field waiting writes nothing, and a finished field keeps its entry and
\* its status for the rest of the call.
C11_WriteOnce ==
    [][pc = "awaiting_input" =>
         \A j \in DOMAIN status :
            /\ (j # field_idx \/ status'[j] = "AWAITING_INPUT") =>
                   completed_form'.fields[j] = completed_form.fields[j]
            /\ Terminal(j) => status'[j] = status[j]]_vars

\* the first field is finished with a value and the second field has
\* already failed an attempt
C11_Witness ==
    /\ pc = "awaiting_input"
    /\ field_idx = 2
    /\ attempts > 0
    /\ Terminal(1)
    /\ ~IsEmptyValue(completed_form.fields[1].value)

\* the field entries of the schemas process_form can be called on
SchemaEntries ==
    UNION { Range(schema) : schema \in Schemas \cup {SampleForm} }

\* C12  Hidden fields are skipped entirely: a field with hidden = true, or
\* whose name starts with '_', is never visited by a process_form call: it
\* is not prompted, not validated, has no chat-history entry, and its entry
\* in the completed form is the entry of the loaded schema.
C12_HiddenSkipped ==
    \A i \in DOMAIN status :
        LET f == completed_form.fields[i]
        IN  (f.hidden \/ StartsWith(f.name, <<"_">>)) =>
                /\ status[i] = "NOT_VISITED"
                /\ f.name \notin Range(prompted)
                /\ validations[i] = 0
                /\ oracle_calls[i] = 0
                /\ \A k \in DOMAIN chat_history : chat_history[k].field # f.name
                /\ f \in SchemaEntries

\* a call has returned on a form with a hidden field, a system field and a
\* field that was processed
C12_Witness ==
    /\ Returned
    /\ \E i, j, k \in DOMAIN status :
          /\ completed_form.fields[i].hidden
          /\ StartsWith(completed_form.fields[j].name, <<"_">>)
          /\ ~completed_form.fields[j].hidden
          /\ Terminal(k)

\* C13  Required-empty check runs first: for every field type and whatever
\* the oracle does, an empty or whitespace-only input on a required field
\* is invalid with the 'field is required' message and no value, and the
\* oracle call is not reached.
C13_RequiredEmptyFirst ==
    (called /\ arg_field_data.required /\ strip(arg_user_input) = <<>>) =>
        /\ ~ret_validation.is_valid
        /\ ~ret_validation.raises
        /\ ret_validation.message =
               "This field is required. Please provide a value for {display_name}."
        /\ ret_validation.value = None
        /\ ~OracleConsulted(arg_field_data, arg_user_input)

\* a whitespace-only input on a required select field was rejected while
\* the oracle would have accepted it
C13_Witness ==
    /\ called
    /\ arg_field_data.required
    /\ arg_field_data.type = "select"
    /\ arg_user_input = <<" ">>
    /\ arg_llm.t = "json_object" /\ arg_llm.is_valid
    /\ ~ret_validation.is_valid

\* C14  Empty input on an optional field: for every field type, the
\* validator given the empty input for a field with required = false
\* returns valid with the empty string as value, without reaching the
\* oracle call.
C14_OptionalEmptyValid ==
    (called /\ ~arg_field_data.required /\ arg_user_input = <<>>) =>
        /\ ret_validation.is_valid
        /\ ret_validation.value = Str(<<>>)
        /\ ~OracleConsulted(arg_field_data, arg_user_input)

\* the validator was called on a select field with an input that is not blank
SelectCall ==
    /\ called
    /\ arg_field_data.type = "select"
    /\ strip(arg_user_input) # <<>>

\* the inputs of the model that are integers, with the integer they denote
IntegerInputs ==
    { [text |-> <<"0">>, k |-> 0], [text |-> <<"1">>, k |-> 1], [text |-> <<"2">>, k |-> 2],
      [text |-> <<"3">>, k |-> 3], [text |-> <<"5">>, k |-> 5], [text |-> <<"1", "5">>, k |-> 15],
      [text |-> <<"-", "1">>, k |-> 0 - 1], [text |-> <<" ", "2", " ">>, k |-> 2] }

\* C15  Select by index: on a select field with n options an input that
\* is the integer k is valid with the k-th option's value when
\* 1 <= k <= n, and invalid with the message "Please enter a number
\* between 1 and n." otherwise.
C15_SelectByIndex ==
    SelectCall =>
        \A inp \in IntegerInputs :
            arg_user_input = inp.text =>
                LET n == Len(arg_field_data.options)
                IN  IF 1 <= inp.k /\ inp.k <= n
                      THEN /\ ret_validation.is_valid
                           /\ ret_validation.value = Str(arg_field_data.options[inp.k].value)
                      ELSE /\ ~ret_validation.is_valid
                           /\ ret_validation.value = None
                           /\ ret_validation.message =
                                  "Please enter a number between 1 and " \o ToString(n) \o "."

\* index 3 picked the third of more than three options
C15_Witness ==
    /\ SelectCall
    /\ arg_user_input = <<"3">>
    /\ Len(arg_field_data.options) > 3
    /\ ret_validation.is_valid
    /\ ret_validation.value = Str(arg_field_data.options[3].value)

\* C16  Select by exact match: on a select field whose options are
\* {value, label} records, an input equal to an option's value or to an
\* option's label is valid and yields that option's value.
C16_SelectByExactMatch ==
    SelectCall =>
        \A i \in DOMAIN arg_field_data.options :
            LET opt == arg_field_data.options[i]
            IN  (~opt.has_text /\ arg_user_input \in {opt.value, opt.label}) =>
                    /\ ret_validation.is_valid
                    /\ ret_validation.value = Str(opt.value)

\* the input is not one of the integer inputs
NonNumericInput == arg_user_input \notin {inp.text : inp \in IntegerInputs}

\* the texts the select validator compares with: an option's 'text', or
\* its value when it has none
ComparedTexts ==
    {OptionText(arg_field_data.options[i]) : i \in DOMAIN arg_field_data.options}

\* the input equals no option value or text, and is in neither direction a
\* case-insensitive substring of an option text
NoExactOrSubstringMatch ==
    /\ \A i \in DOMAIN arg_field_data.options :
          arg_user_input # arg_field_data.options[i].value
    /\ \A text \in ComparedTexts :
          /\ arg_user_input # text
          /\ ~IsSubstring(lower(arg_user_input), lower(text))
          /\ ~IsSubstring(lower(text), lower(arg_user_input))

\* no option text begins with the first character of the input
NoFirstCharacterMatch ==
    \A text \in ComparedTexts :
        ~(text # <<>> /\ LowerChar(text[1]) = LowerChar(arg_user_input[1]))

\* the zero-match outcome: at most 3 options reject with the option list,
\* more than 3 accept the input with the suffix " (needs verification)"
ZeroMatchOutcome ==
    LET options == arg_field_data.options
        texts == [i \in DOMAIN options |-> OptionText(options[i])]
    IN  IF Len(options) <= 3
          THEN /\ ~ret_validation.is_valid
               /\ ret_validation.value = None
               /\ ret_validation.message =
                      "Invalid selection. Please choose one of these options:\n"
                      \o NumberedList(texts, Len(texts))
          ELSE /\ ret_validation.is_valid
               /\ ret_validation.value =
                      Str(arg_user_input \o <<" ", "(", "n", "e", "e", "d", "s", " ", "v", "e", "r", "i", "f", "i", "c", "a", "t", "i", "o", "n", ")">>)

\* C17 as stated: a non-numeric input that matches no option exactly or as
\* a case-insensitive substring gets the zero-match outcome and is never
\* resolved to an option.
C17_ZeroMatchPolicy ==
    (SelectCall /\ NonNumericInput /\ NoExactOrSubstringMatch) => ZeroMatchOutcome

\* C17 amended: a non-numeric input that matches no option exactly or as
\* a case-insensitive substring, and whose first character begins no
\* option text, gets the zero-match outcome; an input whose first
\* character begins exactly one option text is resolved to that option.
C17_ZeroMatchPolicyFirstCharacter ==
    (SelectCall /\ NonNumericInput /\ NoExactOrSubstringMatch) =>
        IF NoFirstCharacterMatch THEN ZeroMatchOutcome
        ELSE \A i \in DOMAIN arg_field_data.options :
                LET text == OptionText(arg_field_data.options[i])
                    first == text # <<>> /\ LowerChar(text[1]) = LowerChar(arg_user_input[1])
                    others == \E j \in DOMAIN arg_field_data.options :
                                 /\ j # i
                                 /\ OptionText(arg_field_data.options[j]) # <<>>
                                 /\ LowerChar(OptionText(arg_field_data.options[j])[1])
                                        = LowerChar(arg_user_input[1])
                IN  (first /\ ~others) =>
                        /\ ret_validation.is_valid
                        /\ ret_validation.value = Str(arg_field_data.options[i].value)

\* an unmatched input was accepted with the suffix on a field of more than
\* three options
C17_Witness ==
    /\ SelectCall /\ NonNumericInput /\ NoExactOrSubstringMatch /\ NoFirstCharacterMatch
    /\ Len(arg_field_data.options) > 3
    /\ ret_validation.is_valid

\* C18  Number range: on a number field that declares validation min and
\* max, an input that is a number outside [min, max] is invalid, whatever
\* the oracle answers.
C18_NumberRange ==
    (called /\ arg_field_data.type = "number" /\ arg_field_data.validation.present) =>
        \A inp \in IntegerInputs :
            ( /\ arg_user_input = inp.text
              /\ (inp.k < arg_field_data.validation.min \/ inp.k > arg_field_data.validation.max) )
            => /\ ~ret_validation.is_valid
               /\ ret_validation.value = None

\* C19  Date validation: on a date field the input "2025-13-40", which is
\* a date under no format, is invalid, and the input "04/18/2025" is valid
\* with the value normalized to "2025-04-18".
C19_DateValidation ==
    (called /\ arg_field_data.type = "date") =>
        /\ arg_user_input = <<"2", "0", "2", "5", "-", "1", "3", "-", "4", "0">> =>
               ~ret_validation.is_valid
        /\ arg_user_input = <<"0", "4", "/", "1", "8", "/", "2", "0", "2", "5">> =>
               /\ ret_validation.is_valid
               /\ ret_validation.value = Str(<<"2", "0", "2", "5", "-", "0", "4", "-", "1", "8">>)

\* the oracle's answer decided nothing: the oracle call was not reached,
\* or it raised and the deterministic validation decided
OracleExcluded ==
    \/ ~OracleConsulted(arg_field_data, arg_user_input)
    \/ arg_llm.t = "interface_raises"

C21_ReviewReasonIffEscalated ==
    Returned =>
        \A i \in DOMAIN status :
            LET f == completed_form.fields[i]
            IN  /\ (f.review_reason # None) <=> f.needs_review
                /\ f.needs_review => status[i] = "ESCALATED"
                /\ status[i] = "ACCEPTED" => (~f.needs_review /\ f.review_reason = None)

(***************************************************************************)
(* ChatHistoryManager (src/src/chat_history.py): the persisted history     *)
(***************************************************************************)
MaxHistory == 2      \* max_history ranges over 0..MaxHistory
MaxFileLen == 2      \* messages in the history file at construction
MaxAdds == 3         \* add_to_history calls in one run

Roles == {"user", "assistant"}
Contents == {"a", "b"}
\* A message; its timestamp does not take part in trimming
Message(role, content) == [role |-> role, content |-> content]
Messages == {Message(r, c) : r \in Roles, c \in Contents}

RECURSIVE SeqsUpTo(_, _)
SeqsUpTo(S, n) ==
    IF n = 0 THEN {<<>>}
    ELSE LET shorter == SeqsUpTo(S, n - 1)
         IN  shorter \cup {Append(q, m) : q \in {x \in shorter : Len(x) = n - 1}, m \in S}

HistoryFiles ==
    {NoHistoryFile} \cup {[ok |-> TRUE, messages |-> q] : q \in SeqsUpTo(Messages, MaxFileLen)}

\* _load_history: the file's list, or [] when the file is missing or unreadable
_load_history(file) == IF file.ok THEN file.messages ELSE <<>>

\* Python's lst[-n:] for n >= 0: -0 is 0, so lst[-0:] is the whole list
LastSlice(lst, n) ==
    IF n = 0 \/ n >= Len(lst) THEN lst
    ELSE SubSeq(lst, Len(lst) - n + 1, Len(lst))

\* The list add_to_history leaves in self.history
Trimmed(lst, max) == IF Len(lst) > max THEN LastSlice(lst, max) ELSE lst

InitHistory ==
    /\ Constructed("")
    /\ arg_field_data = SampleForm[1]
    /\ arg_user_input = <<>>
    /\ arg_llm = LLM("raises", FALSE, FALSE, FALSE, None, "", <<>>)
    /\ called = FALSE
    /\ ret_validation = InvalidResult("")
    /\ recalled = FALSE
    /\ ret_revalidation = InvalidResult("")
    /\ replied = FALSE
    /\ arg_reply = <<>>
    /\ ret_reply = InvalidResult("")
    /\ mgr_history_file \in HistoryFiles
    /\ mgr_max_history \in 0..MaxHistory
    /\ mgr_history = _load_history(mgr_history_file)
    /\ mgr_appended = mgr_history

add_to_history(role, content) ==
    /\ Len(mgr_appended) < MaxFileLen + MaxAdds
    /\ LET appended == Append(mgr_history, Message(role, content))
           kept == Trimmed(appended, mgr_max_history)
       IN  /\ mgr_history' = kept
           /\ mgr_history_file' = [ok |-> TRUE, messages |-> kept]
    /\ mgr_appended' = Append(mgr_appended, Message(role, content))
    /\ UNCHANGED mgr_max_history
    /\ UNCHANGED processor_vars
    /\ UNCHANGED validator_vars

NextHistory == \E role \in Roles, content \in Contents : add_to_history(role, content)

SpecHistory == InitHistory /\ [][NextHistory]_vars

\* The last n elements of lst, all of it when it has fewer
MostRecent(lst, n) ==
    IF n >= Len(lst) THEN lst ELSE SubSeq(lst, Len(lst) - n + 1, Len(lst))

\* C22  Persisted chat history bound: after every add_to_history call, for
\* every max_history >= 0 and every initial content of the history file, the
\* stored history holds at most max_history messages and they are the most
\* recent messages, in their original order; the file holds the same list
C22_HistoryBound ==
    [][\A role \in Roles, content \in Contents :
           add_to_history(role, content) =>
               /\ Len(mgr_history') <= mgr_max_history
               /\ mgr_history' = MostRecent(mgr_appended', mgr_max_history)
               /\ mgr_history_file' = [ok |-> TRUE, messages |-> mgr_history']]_vars

\* The same bound for max_history >= 1 only (not a claim: it locates the failure)
HistoryBoundPositive ==
    [][\A role \in Roles, content \in Contents :
           (add_to_history(role, content) /\ mgr_max_history >= 1) =>
               /\ Len(mgr_history') <= mgr_max_history
               /\ mgr_history' = MostRecent(mgr_appended', mgr_max_history)]_vars

\* The dictionary entries whose key is the trimmed, lower-cased input
AbbreviationEntries(user_input) ==
    {m \in medical_abbreviations : m.abbr = lower(strip(user_input))}

\* C23  Medical-abbreviation bypass: for a text or textarea field, an input
\* whose trimmed, lower-cased form is a key of the abbreviation dictionary
\* is accepted without a message, whatever the oracle would do (also when it
\* raises, which is when the nonsensical-input check would run); the value
\* is the upper-cased abbreviation followed by its expansion in parentheses
C23_AbbreviationBypass ==
    (/\ called
     /\ arg_field_data.type \in {"text", "textarea"}
     /\ AbbreviationEntries(arg_user_input) # {})
        => \A m \in AbbreviationEntries(arg_user_input) :
               /\ ret_validation.is_valid
               /\ ~ret_validation.raises
               /\ ret_validation.message = NoMessage
               /\ ret_validation.value.k = "str"
               /\ strip(ret_validation.value.s)
                      = upper(m.abbr) \o <<" ", "(">> \o m.expanded \o <<")">>

C23_Witness ==
    /\ called
    /\ arg_field_data.type = "textarea"
    /\ arg_field_data.required
    /\ arg_user_input = <<" ", "M", "r", "i">>
    /\ arg_llm.t = "json_object" /\ ~arg_llm.is_valid
    /\ ret_validation.is_valid
    /\ IsSubstring(<<"M", "a", "g", "n", "e", "t", "i", "c">>, ret_validation.value.s)

\* The number of failure entries of the field that end the history: the
\* failed validations of the visit in progress
RECURSIVE TrailingFailures(_, _)
TrailingFailures(history, field) ==
    IF history = <<>> THEN 0
    ELSE LET last == history[Len(history)]
         IN  IF last.kind = "failure" /\ last.field = field
               THEN 1 + TrailingFailures(SubSeq(history, 1, Len(history) - 1), field)
               ELSE 0

\* The guidance texts of the three levels
ExampleGuidance == {"For example: {examples}"}
FormatHints(type) ==
    IF type = "date" THEN {"You can enter a date like MM/DD/YYYY (e.g., 04/18/2025)."}
    ELSE IF type = "number" THEN {"Please enter a numeric value (e.g., 42 or 7.5)."}
    ELSE IF type = "email" THEN {"Please enter a valid email address (e.g., name@example.com)."}
    ELSE IF type = "select"
      THEN {"You can enter the number or the exact text of one of the options."}
    ELSE {"For {display_name}, you can enter any relevant information. If there is none, you can type 'none'."}
EscapeNotice(required) ==
    IF required
      THEN {"This is a required field. Please provide any relevant information to continue."}
      ELSE {"This field is optional. You can type 'none' or leave it empty to skip."}
GuidanceOfLevel(k, field_data) ==
    IF k = 1 THEN ExampleGuidance
    ELSE IF k = 2 THEN FormatHints(field_data.type)
    ELSE IF k = 3 THEN EscapeNotice(field_data.required)
    ELSE {}

\* C24  Attempt-scaled guidance: within one field, the k-th failed
\* validation (k = 1, 2, 3) is answered with the guidance of level k: an
\* example, then a format hint, then the notice that restates whether the
\* field is required or optional; no level is repeated or skipped
C24_AttemptScaledGuidance ==
    [][(/\ Len(chat_history') > Len(chat_history)
        /\ chat_history'[Len(chat_history) + 1].kind = "failure")
          => LET e == chat_history'[Len(chat_history) + 1]
                 k == TrailingFailures(chat_history, e.field) + 1
             IN  /\ e.field = form_data.fields[field_idx].name
                 /\ e.assistant[2] \in GuidanceOfLevel(k, form_data.fields[field_idx])]_vars

C24_Witness ==
    \E i \in 1..Len(chat_history) :
        /\ i + 3 <= Len(chat_history)
        /\ \A j \in 0..2 : /\ chat_history[i + j].kind = "failure"
                           /\ chat_history[i + j].field = dx
        /\ chat_history[i].assistant[2] \in ExampleGuidance
        /\ chat_history[i + 1].assistant[2] \in FormatHints("text")
        /\ chat_history[i + 2].assistant[2] \in EscapeNotice(TRUE)
        /\ chat_history[i + 3].kind = "flagged"

\* The entries a step appends to the chat history
Appended == SubSeq(chat_history', Len(chat_history) + 1, Len(chat_history'))

\* C25  Chat history is append-only and tracks every transition: no step
\* removes or rewrites an entry; a step that consumes a user input appends
\* exactly one success, skip or failure entry that carries the input and the
\* name of the field being processed, followed by one flagged entry exactly
\* when the step escalates the field; any other step appends no field entry
C25_AppendOnlyHistory ==
    [][/\ Len(chat_history') >= Len(chat_history)
       /\ SubSeq(chat_history', 1, Len(chat_history)) = chat_history
       /\ IF asked' = asked + 1
            THEN LET f == form_data.fields[field_idx]
                     escalated == status'[field_idx] = "ESCALATED"
                 IN  /\ Len(Appended) = (IF escalated THEN 2 ELSE 1)
                     /\ Appended[1].kind \in {"success", "skip", "failure"}
                     /\ Appended[1].field = f.name
                     /\ Appended[1].user \in UserInputs
                     /\ escalated => /\ Appended[1].kind = "failure"
                                     /\ Appended[2].kind = "flagged"
                                     /\ Appended[2].field = f.name
            ELSE \A j \in DOMAIN Appended : Appended[j].kind = "context"]_vars

C25_Witness ==
    /\ Returned
    /\ \E i, j \in DOMAIN chat_history :
           /\ i < j
           /\ chat_history[i].kind = "flagged"
           /\ chat_history[j].kind \in {"skip", "success"}
           /\ chat_history[j].field # chat_history[i].field

\* A step in which the oracle is called for the field being processed
OracleCalled ==
    /\ pc = "awaiting_input"
    /\ asked' = asked + 1
    /\ oracle_calls'[field_idx] = oracle_calls[field_idx] + 1

\* C26  Oracle context freshness: at every oracle validation call, retries
\* within a field included, the previous_exchanges handed to the oracle are
\* the most recent one or two chat-history entries at the time of the call
C26_OracleContextFresh ==
    [][OracleCalled => last_exchanges = MostRecent(chat_history, 2)]_vars

\* The same for the first attempt of a field only (not a claim: it locates
\* the failure in the retries)
OracleContextFreshOnFirstAttempt ==
    [][(OracleCalled /\ attempts = 0) => last_exchanges = MostRecent(chat_history, 2)]_vars

\* form_data is a schema that load_form was given (not the built-in sample)
SchemaLoaded ==
    /\ ~FormDataMissing(form_data)
    /\ form_data.fields[1].name # SampleForm[1].name

\* A step of process_form: the call itself, or the handling of one input
ProcessFormStep == runs' = runs + 1 \/ asked' = asked + 1

\* C27  Schema is not mutated: no step of process_form changes the schema
\* that load_form was given: no field entry of form_data gains or changes
\* value, needs_review or review_reason
C27_SchemaNotMutated ==
    [][(SchemaLoaded /\ ProcessFormStep) => form_data' = form_data]_vars

\* C28  Speech mode refines text mode: every step of
\* process_form_with_speech is the step process_form takes from the same
\* state on the same effective input and oracle verdict, so both yield the
\* same completed form, fields_needing_review and chat-history records
C28_SpeechRefinesText ==
    [][/\ process_form_with_speech_call => process_form_call
       /\ \A speech_result \in SpeechResults, typed \in UserInputs, llm \in LLMBehaviours :
              process_form_with_speech_input(speech_result, typed, llm)
                  => process_form_input(EffectiveInput(speech_result, typed), llm)]_vars

\* The same for the steps that neither start a call without a schema nor
\* escalate a field (not a claim: it locates the two differences)
SpeechRefinesTextElsewhere ==
    [][/\ (process_form_with_speech_call /\ ~FormDataMissing(form_data)) => process_form_call
       /\ \A speech_result \in SpeechResults, typed \in UserInputs, llm \in LLMBehaviours :
              (/\ process_form_with_speech_input(speech_result, typed, llm)
               /\ Len(needs_review') = Len(needs_review))
                  => process_form_input(EffectiveInput(speech_result, typed), llm)]_vars

\* The escalating steps differ only in the text of the flagged entry
SpeechEscalationDiffersInTextOnly ==
    [][\A speech_result \in SpeechResults, typed \in UserInputs, llm \in LLMBehaviours :
           (/\ process_form_with_speech_input(speech_result, typed, llm)
            /\ Len(needs_review') > Len(needs_review))
               => LET e == chat_history'[Len(chat_history')]
                  IN  /\ e = SpeechFlaggedEntry(e.user, e.field)
                      /\ e # FlaggedEntry(e.user, e.field)]_vars

\* A step that handles one user input (in text or in speech mode); the
\* input is the one its first appended entry records
InputStep == pc = "awaiting_input" /\ asked' = asked + 1 /\ Appended # <<>>

\* What C29 says of one step, with or without the part on needs_review
SkipPolicy(with_review) ==
    LET i == field_idx
        f == form_data.fields[i]
        user_input == Appended[1].user
    IN  /\ (~f.required /\ _is_skip_request(user_input))
               => /\ status'[i] = "ACCEPTED"
                  /\ completed_form'.fields[i].value = Str(Not_specified)
                  /\ Appended = <<SkipEntry(user_input, f.name)>>
                  /\ validations'[i] = validations[i]
                  /\ with_review => ~completed_form'.fields[i].needs_review
        /\ (~f.required /\ status'[i] = "ESCALATED")
               => /\ TrailingFailures(SubSeq(chat_history', 1, Len(chat_history') - 1), f.name)
                         = max_attempts
                  /\ \A j \in 1..max_attempts :
                         ~_is_skip_request(chat_history'[Len(chat_history') - j].user)
        /\ f.required
               => /\ Appended[1].kind # "skip"
                  /\ validations'[i] = validations[i] + 1

\* C29  Skip is available at every attempt and only to optional fields: a
\* skip phrase given for an optional field at any attempt ends the field
\* ACCEPTED with "Not specified", consumes no attempt and leaves no
\* needs_review; an optional field is escalated only after max_attempts
\* invalid inputs that are not skip phrases; a required field never takes
\* the skip branch, its input is validated like any other
C29_SkipAtEveryAttempt ==
    [][InputStep => SkipPolicy(TRUE)]_vars

\* The same without the part on needs_review, and the whole of it in the
\* first call (not claims: they locate the failure)
SkipAtEveryAttemptButReview ==
    [][InputStep => SkipPolicy(FALSE)]_vars
SkipAtEveryAttemptFirstCall ==
    [][(InputStep /\ runs = 1) => SkipPolicy(TRUE)]_vars

\* An optional field is skipped after a failed attempt
SkipAfterFailureReached ==
    \E j \in DOMAIN chat_history :
        /\ j > 1
        /\ chat_history[j].kind = "skip"
        /\ chat_history[j - 1].kind = "failure"
        /\ chat_history[j - 1].field = chat_history[j].field

\* The option positions whose texts, numbered from 1, make up the list of
\* a 'Multiple matches found' rejection
ShownPositions(field_data, message) ==
    LET texts == [i \in DOMAIN field_data.options |-> OptionText(field_data.options[i])]
    IN  {S \in SUBSET DOMAIN texts :
            LET shown == Select(texts, S, Len(texts))
            IN  message = "Multiple matches found. Please select one of the following:\n"
                              \o NumberedList(shown, Len(shown))}

\* the k-th smallest element of S
RECURSIVE Kth(_, _)
Kth(S, k) == IF k = 1 THEN SetMin(S) ELSE Kth(S \ {SetMin(S)}, k - 1)

\* C30  Disambiguation round-trip: when select validation rejected an input
\* with a numbered 'Multiple matches found' list, a numeric reply k on the
\* next attempt selects the k-th option shown in that list
C30_DisambiguationRoundTrip ==
    (/\ replied
     /\ arg_field_data.type = "select")
        => \A S \in ShownPositions(arg_field_data, ret_validation.message) :
               LET k == IntParse(arg_reply).n
               IN  (1 <= k /\ k <= Cardinality(S))
                       => /\ ret_reply.is_valid
                          /\ ret_reply.value
                                 \in {Str(OptionValue(arg_field_data.options[Kth(S, k)])),
                                      Str(OptionText(arg_field_data.options[Kth(S, k)]))}

\* The same for the lists that show the options from the first one on
\* (not a claim: it locates the failure)
DisambiguationRoundTripOnPrefix ==
    (/\ replied
     /\ arg_field_data.type = "select")
        => \A S \in ShownPositions(arg_field_data, ret_validation.message) :
               LET k == IntParse(arg_reply).n
               IN  (1 <= k /\ k <= Cardinality(S) /\ S = 1..Cardinality(S))
                       => /\ ret_reply.is_valid
                          /\ ret_reply.value
                                 \in {Str(OptionValue(arg_field_data.options[Kth(S, k)])),
                                      Str(OptionText(arg_field_data.options[Kth(S, k)]))}
DisambiguationOnPrefixReached ==
    /\ replied
    /\ arg_field_data.type = "select"
    /\ \E S \in ShownPositions(arg_field_data, ret_validation.message) :
           S = 1..Cardinality(S) /\ IntParse(arg_reply).n = 2

====
